---- MODULE Spec2Model ----
(***************************************************************************)
(* Prin Search, the multi-provider command line of src/src/index.js.       *)
(*                                                                         *)
(* A JavaScript string is a sequence of one-character strings, so that     *)
(* toLowerCase, trim and startsWith are computed character by character.   *)
(* Values of a provider's reply are tagged records (JsStr, JsArr, JsObj,   *)
(* Undefined, Null), so that optional chaining and || are computed on      *)
(* absent, null and present fields alike.                                   *)
(***************************************************************************)
EXTENDS Integers, Sequences, FiniteSets, TLC

VARIABLES
    argv,      \* process.argv.slice(2): the command line
    env,       \* process.env, the six credential variables
    pc,        \* where the entry function or the chat loop stands
    lines,     \* the lines rl.question has delivered so far
    call,      \* the arguments and the switch case of the last ask()
    asks,      \* how many times ask() was invoked
    request,   \* the last request handed to a provider SDK
    netCalls,  \* how many requests were handed to a provider SDK
    reply,     \* how the last request settled: a body, or an error
    console    \* the last thing printed: console.log or console.error

vars == <<argv, env, pc, lines, call, asks, request, netCalls, reply, console>>

\* The loop reads at most this many lines in a checked run.
MaxLines == 2

-----------------------------------------------------------------------------
\* String literals of the source, as character sequences.

s_gemini == <<"g", "e", "m", "i", "n", "i">>
s_claude == <<"c", "l", "a", "u", "d", "e">>
s_perplexity == <<"p", "e", "r", "p", "l", "e", "x", "i", "t", "y">>
s_deepseek == <<"d", "e", "e", "p", "s", "e", "e", "k">>
s_grok == <<"g", "r", "o", "k">>
s_openai == <<"o", "p", "e", "n", "a", "i">>
s_chatgpt == <<"c", "h", "a", "t", "g", "p", "t">>

m_gpt_4o_mini == <<"g", "p", "t", "-", "4", "o", "-", "m", "i", "n", "i">>
m_gemini_15_flash == <<"g", "e", "m", "i", "n", "i", "-", "1", ".", "5", "-", "f", "l", "a", "s", "h">>
m_sonar_pro == <<"s", "o", "n", "a", "r", "-", "p", "r", "o">>
m_deepseek_chat == <<"d", "e", "e", "p", "s", "e", "e", "k", "-", "c", "h", "a", "t">>
m_claude_35_sonnet == <<"c", "l", "a", "u", "d", "e", "-", "3", "-", "5", "-", "s", "o", "n", "n", "e", "t", "-", "2", "0", "2", "4", "0", "6", "2", "0">>
m_grok_2_latest == <<"g", "r", "o", "k", "-", "2", "-", "l", "a", "t", "e", "s", "t">>

f_p == <<"-", "p">>
f_provider == <<"-", "-", "p", "r", "o", "v", "i", "d", "e", "r">>
f_m == <<"-", "m">>
f_model == <<"-", "-", "m", "o", "d", "e", "l">>
f_i == <<"-", "i">>
f_interactive == <<"-", "-", "i", "n", "t", "e", "r", "a", "c", "t", "i", "v", "e">>
s_exit == <<"/", "e", "x", "i", "t">>
s_dash == <<"-">>
s_Prin == <<"P", "r", "i", "n">>

\* null and undefined where a string is expected (getArg's result, MODEL,
\* PROMPT): one value that is no string, and falsy like both.
null == <<"<null>">>

-----------------------------------------------------------------------------
\* String.prototype methods.

UpperCase == <<"A", "B", "C", "D", "E", "F", "G", "H", "I", "J", "K", "L", "M", "N", "O", "P", "Q", "R", "S", "T", "U", "V", "W", "X", "Y", "Z">>
LowerCase == <<"a", "b", "c", "d", "e", "f", "g", "h", "i", "j", "k", "l", "m", "n", "o", "p", "q", "r", "s", "t", "u", "v", "w", "x", "y", "z">>

UpperToLower ==
    [c \in {UpperCase[i] : i \in DOMAIN UpperCase} |->
        LowerCase[CHOOSE i \in DOMAIN UpperCase : UpperCase[i] = c]]

toLowerCaseChar(c) == IF c \in DOMAIN UpperToLower THEN UpperToLower[c] ELSE c

toLowerCase(s) == [i \in DOMAIN s |-> toLowerCaseChar(s[i])]

WhiteSpace == {" ", "\t", "\n", "\r"}

RECURSIVE trimStart(_)
trimStart(s) ==
    IF s # <<>> /\ Head(s) \in WhiteSpace THEN trimStart(Tail(s)) ELSE s

RECURSIVE trimEnd(_)
trimEnd(s) ==
    IF s # <<>> /\ s[Len(s)] \in WhiteSpace
    THEN trimEnd(SubSeq(s, 1, Len(s) - 1))
    ELSE s

trim(s) == trimEnd(trimStart(s))

startsWith(s, prefix) ==
    Len(s) >= Len(prefix) /\ SubSeq(s, 1, Len(prefix)) = prefix

\* !x and x || y on a string slot: the empty string and null are falsy.
falsy(x) == x = null \/ x = <<>>

or(x, y) == IF falsy(x) THEN y ELSE x

-----------------------------------------------------------------------------
\* Command-line helpers, index.js:13-23.

\* args.indexOf(flag), 0-based, -1 when absent.
indexOf(args, flag) ==
    IF \E i \in DOMAIN args : args[i] = flag
    THEN (CHOOSE i \in DOMAIN args :
              args[i] = flag /\ \A j \in 1..(i - 1) : args[j] # flag) - 1
    ELSE -1

\* args[i] with a 0-based index; undefined past the end.
at(args, i) == IF i + 1 \in DOMAIN args THEN args[i + 1] ELSE null

getArg(args, flag, fallback) ==
    LET i == indexOf(args, flag)
    IN  IF i >= 0 THEN or(at(args, i + 1), null) ELSE fallback

hasFlag(args, flag) == \E i \in DOMAIN args : args[i] = flag

\* Variant: the provider name is used as typed, without toLowerCase().
PROVIDER_caseSensitive(args) ==
    or(getArg(args, f_p, null), or(getArg(args, f_provider, null), s_gemini))

PROVIDER(args) ==
    toLowerCase(
        or(getArg(args, f_p, null), or(getArg(args, f_provider, null), s_gemini)))

MODEL(args) == or(getArg(args, f_m, null), or(getArg(args, f_model, null), null))

\* args.filter((a, i) => i === args.length - 1 && !a.startsWith('-'))[0]
PROMPT(args) ==
    IF args # <<>> /\ ~startsWith(args[Len(args)], s_dash)
    THEN args[Len(args)]
    ELSE null

INTERACTIVE(args) == hasFlag(args, f_i) \/ hasFlag(args, f_interactive)

-----------------------------------------------------------------------------
\* Values of a reply body.

Undefined == [t |-> "undefined"]
Null == [t |-> "null"]
JsStr(s) == [t |-> "string", s |-> s]
JsArr(a) == [t |-> "array", a |-> a]
JsObj(o) == [t |-> "object", o |-> o]
EmptyObj == [t |-> "object", o |-> <<>>]

Nullish(v) == v.t \in {"undefined", "null"}

\* v.k, for a v that is neither null nor undefined.
Prop(v, k) ==
    IF v.t = "object" /\ k \in DOMAIN v.o THEN v.o[k] ELSE Undefined

\* v?.k
OptProp(v, k) == IF Nullish(v) THEN Undefined ELSE Prop(v, k)

\* v?.[i], i counted from 0.
OptIndex(v, i) ==
    IF Nullish(v) THEN Undefined
    ELSE IF v.t = "array" /\ i + 1 \in DOMAIN v.a THEN v.a[i + 1]
    ELSE Undefined

Falsy(v) == Nullish(v) \/ (v.t = "string" /\ v.s = <<>>)

Or(v, w) == IF Falsy(v) THEN w ELSE v

\* `${v}` in a template literal.
templateString(v) ==
    CASE v.t = "string" -> v.s
      [] v.t = "undefined" -> <<"u", "n", "d", "e", "f", "i", "n", "e", "d">>
      [] v.t = "null" -> <<"n", "u", "l", "l">>
      [] OTHER -> <<"[", "o", "b", "j", "e", "c", "t", "]">>

-----------------------------------------------------------------------------
\* Defaults and output, index.js:26-38.

\* Variant: grok's default model is the one of openai.
DEFAULTS_grokSwapped ==
    [openai |-> m_gpt_4o_mini,
     gemini |-> m_gemini_15_flash,
     perplexity |-> m_sonar_pro,
     deepseek |-> m_deepseek_chat,
     claude |-> m_claude_35_sonnet,
     grok |-> m_gpt_4o_mini]

DEFAULTS ==
    [openai |-> m_gpt_4o_mini,
     gemini |-> m_gemini_15_flash,
     perplexity |-> m_sonar_pro,
     deepseek |-> m_deepseek_chat,
     claude |-> m_claude_35_sonnet,
     grok |-> m_grok_2_latest]

\* console.log(`\n=== ${label} ===\n${text}\n`)
out(label, text) == [stream |-> "stdout", label |-> label, text |-> templateString(text)]

\* console.error('Error:', e.message)
printError(message) == [stream |-> "stderr", message |-> message]

-----------------------------------------------------------------------------
\* The environment. A credential variable is unset, empty or holds a key.

EnvVars ==
    {"OPENAI_API_KEY", "GOOGLE_API_KEY", "ANTHROPIC_API_KEY",
     "PPLX_API_KEY", "DEEPSEEK_API_KEY", "XAI_API_KEY"}

Unset == "<undefined>"
CredValues == {Unset, "", "sk-key"}

\* A variable the program has not read yet: its value is fixed by the
\* first read (ReadEnv below) and never changes afterwards.
Unread == "<unread>"

\* Variant: if (key === undefined), which lets an empty key through.
MissingKey_undefinedOnly(key) == key = Unset

\* if (!key)
MissingKey(key) == key = Unset \/ key = ""

-----------------------------------------------------------------------------
\* Per-provider callers, index.js:41-97. A caller either throws before any
\* request is made, or hands one request to its SDK; `read` is the
\* environment variable it consulted.

Throw(message, v) == [threw |-> TRUE, message |-> message, read |-> v]
Sent(req, v) == [threw |-> FALSE, request |-> req, read |-> v]

NoBaseURL == ""

\* new OpenAI({apiKey, baseURL}); client.chat.completions.create({model, messages})
callOpenAI(prompt, model, baseURL, apiKey) ==
    [sdk |-> "openai",
     baseURL |-> baseURL,
     apiKey |-> apiKey,
     model |-> model,
     messages |-> <<[role |-> "user", content |-> prompt]>>]

\* Variant: the path without its || '' fallback.
callOpenAI_return_noFallback(res) ==
    OptProp(OptProp(OptIndex(Prop(res, "choices"), 0), "message"), "content")

\* return res.choices?.[0]?.message?.content || ''
callOpenAI_return(res) ==
    Or(OptProp(OptProp(OptIndex(Prop(res, "choices"), 0), "message"), "content"),
       JsStr(<<>>))

callGemini(prompt, model, environ) ==
    LET key == environ["GOOGLE_API_KEY"]
    IN  IF MissingKey(key)
        THEN Throw("Missing GOOGLE_API_KEY", "GOOGLE_API_KEY")
        ELSE Sent([sdk |-> "google", apiKey |-> key, model |-> model,
                   prompt |-> prompt], "GOOGLE_API_KEY")

\* return result.response.text()
callGemini_return(result) == Prop(Prop(result, "response"), "text")

callClaude(prompt, model, environ) ==
    LET key == environ["ANTHROPIC_API_KEY"]
    IN  IF MissingKey(key)
        THEN Throw("Missing ANTHROPIC_API_KEY", "ANTHROPIC_API_KEY")
        ELSE Sent([sdk |-> "anthropic", apiKey |-> key, model |-> model,
                   max_tokens |-> 1024,
                   messages |-> <<[role |-> "user", content |-> prompt]>>],
                  "ANTHROPIC_API_KEY")

\* blocks.map(b => b.text || '').join('')
RECURSIVE mapTextJoin(_)
mapTextJoin(blocks) ==
    IF blocks = <<>> THEN <<>>
    ELSE Or(Prop(Head(blocks), "text"), JsStr(<<>>)).s \o mapTextJoin(Tail(blocks))

\* Variant: the joined text without trim().
callClaude_return_untrimmed(res) ==
    LET content == Prop(res, "content")
        txt == IF Nullish(content) THEN Undefined
               ELSE JsStr(mapTextJoin(content.a))
    IN  Or(txt, JsStr(<<>>))

\* const txt = res.content?.map(b => b.text || '').join('').trim();
\* return txt || ''
callClaude_return(res) ==
    LET content == Prop(res, "content")
        txt == IF Nullish(content) THEN Undefined
               ELSE JsStr(trim(mapTextJoin(content.a)))
    IN  Or(txt, JsStr(<<>>))

callPerplexity(prompt, model, environ) ==
    LET key == environ["PPLX_API_KEY"]
    IN  IF MissingKey(key)
        THEN Throw("Missing PPLX_API_KEY", "PPLX_API_KEY")
        ELSE Sent(callOpenAI(prompt, model, "https://api.perplexity.ai", key),
                  "PPLX_API_KEY")

callDeepSeek(prompt, model, environ) ==
    LET key == environ["DEEPSEEK_API_KEY"]
    IN  IF MissingKey(key)
        THEN Throw("Missing DEEPSEEK_API_KEY", "DEEPSEEK_API_KEY")
        ELSE Sent(callOpenAI(prompt, model, "https://api.deepseek.com/v1", key),
                  "DEEPSEEK_API_KEY")

callGrok(prompt, model, environ) ==
    LET key == environ["XAI_API_KEY"]
    IN  IF MissingKey(key)
        THEN Throw("Missing XAI_API_KEY", "XAI_API_KEY")
        ELSE Sent(callOpenAI(prompt, model, "https://api.x.ai/v1", key),
                  "XAI_API_KEY")

\* The default branch of ask, index.js:109-113.
callDefault(prompt, model, environ) ==
    LET key == environ["OPENAI_API_KEY"]
    IN  IF MissingKey(key)
        THEN Throw("Missing OPENAI_API_KEY", "OPENAI_API_KEY")
        ELSE Sent(callOpenAI(prompt, model, NoBaseURL, key), "OPENAI_API_KEY")

-----------------------------------------------------------------------------
\* Router, index.js:100-115. The case label taken is kept with the effect.

Case(label, effect) == [case |-> label] @@ effect

\* Variant: an unlisted provider falls into the gemini case.
switchCase_defaultGemini(provider) ==
    CASE provider = s_gemini -> "gemini"
      [] provider = s_claude -> "claude"
      [] provider = s_perplexity -> "perplexity"
      [] provider = s_deepseek -> "deepseek"
      [] provider = s_grok -> "grok"
      [] provider = s_openai -> "openai"
      [] provider = s_chatgpt -> "chatgpt"
      [] OTHER -> "gemini"

\* switch (provider): the case label control jumps to.
switchCase(provider) ==
    CASE provider = s_gemini -> "gemini"
      [] provider = s_claude -> "claude"
      [] provider = s_perplexity -> "perplexity"
      [] provider = s_deepseek -> "deepseek"
      [] provider = s_grok -> "grok"
      [] provider = s_openai -> "openai"
      [] provider = s_chatgpt -> "chatgpt"
      [] OTHER -> "default"

\* 'openai' and 'chatgpt' fall through to the block of default.
ask(provider, prompt, model, environ) ==
    LET c == switchCase(provider)
    IN  CASE c = "gemini" ->
               Case(c, callGemini(prompt, or(model, DEFAULTS.gemini), environ))
          [] c = "claude" ->
               Case(c, callClaude(prompt, or(model, DEFAULTS.claude), environ))
          [] c = "perplexity" ->
               Case(c, callPerplexity(prompt, or(model, DEFAULTS.perplexity), environ))
          [] c = "deepseek" ->
               Case(c, callDeepSeek(prompt, or(model, DEFAULTS.deepseek), environ))
          [] c = "grok" ->
               Case(c, callGrok(prompt, or(model, DEFAULTS.grok), environ))
          [] OTHER ->
               Case(c, callDefault(prompt, or(model, DEFAULTS.openai), environ))

-----------------------------------------------------------------------------
\* What a run is given: a command line, input lines, provider replies.

a_Claude == <<"C", "l", "a", "u", "d", "e">>
a_GROK == <<"G", "R", "O", "K">>
a_foo == <<"f", "o", "o">>
a_gpt_4o == <<"g", "p", "t", "-", "4", "o">>
a_hi == <<"h", "i">>

ProviderNames ==
    {s_gemini, s_claude, s_perplexity, s_deepseek, s_grok, s_openai, s_chatgpt,
     a_Claude, a_GROK, a_foo}

ProviderArgs ==
    {<<>>} \cup {<<f_p, v>> : v \in ProviderNames}
           \cup {<<f_provider, v>> : v \in {s_claude, a_GROK, a_foo}}
ModelArgs == {<<>>, <<f_m, a_gpt_4o>>, <<f_model, a_gpt_4o>>}
ModeArgs == {<<>>, <<f_i>>, <<f_interactive>>}
LastArgs == {<<>>, <<a_hi>>, <<f_p>>}

Argvs ==
    {p \o m \o i \o l :
        p \in ProviderArgs, m \in ModelArgs, i \in ModeArgs, l \in LastArgs}

Lines ==
    {<<>>,
     <<" ", "\t">>,
     <<"/", "e", "x", "i", "t">>,
     <<" ", "/", "E", "x", "I", "T", " ">>,
     <<"h", "i">>,
     <<" ", "h", "i", " ">>}

Content(s) == JsObj([message |-> JsObj([content |-> s])])

OpenAIBodies ==
    {EmptyObj,
     JsObj([choices |-> Null]),
     JsObj([choices |-> JsArr(<<>>)]),
     JsObj([choices |-> JsArr(<<EmptyObj>>)]),
     JsObj([choices |-> JsArr(<<JsObj([message |-> EmptyObj])>>)]),
     JsObj([choices |-> JsArr(<<Content(Null)>>)]),
     JsObj([choices |-> JsArr(<<Content(JsStr(<<>>))>>)]),
     JsObj([choices |-> JsArr(<<Content(JsStr(<<" ", "o", "k", " ">>))>>)]),
     JsObj([choices |-> JsArr(<<Content(JsStr(<<"1">>)), Content(JsStr(<<"2">>))>>)])}

GeminiBodies ==
    {JsObj([response |-> JsObj([text |-> JsStr(<<>>)])]),
     JsObj([response |-> JsObj([text |-> JsStr(<<" ", "o", "k", " ">>)])])}

Text(s) == JsObj([text |-> JsStr(s)])

ClaudeBodies ==
    {EmptyObj,
     JsObj([content |-> JsArr(<<>>)]),
     JsObj([content |-> JsArr(<<Text(<<"a">>), EmptyObj, Text(<<"b">>)>>)]),
     JsObj([content |-> JsArr(<<Text(<<" ", "a", " ">>), Text(<<"b", "\n">>)>>)]),
     JsObj([content |-> JsArr(<<JsObj([type |-> JsStr(<<"t">>)]), Text(<<" ">>)>>)]),
     JsObj([content |-> JsArr(<<JsObj([text |-> Null]), Text(<<"b">>), Text(<<"a">>)>>)])}

Bodies(sdk) ==
    CASE sdk = "openai" -> OpenAIBodies
      [] sdk = "google" -> GeminiBodies
      [] sdk = "anthropic" -> ClaudeBodies

\* e.message of an error the SDK call rejects with.
TransportErrors == {"Connection error.", "401 Incorrect API key provided"}

-----------------------------------------------------------------------------
\* State machine.

NoCall == [case |-> "none"]
NoRequest == [sdk |-> "none"]
NoReply == [kind |-> "none"]
NoOutput == [stream |-> "none"]
Banner == [stream |-> "stdout", banner |-> TRUE]
Usage == [stream |-> "stdout", usage |-> TRUE]

Init ==
    /\ argv \in Argvs
    /\ env = [v \in EnvVars |-> Unread]
    /\ pc = "entry"
    /\ lines = <<>>
    /\ call = NoCall
    /\ asks = 0
    /\ request = NoRequest
    /\ netCalls = 0
    /\ reply = NoReply
    /\ console = NoOutput

\* process.env[v]: the value of a variable is chosen when it is first read.
ReadEnv(v) == IF env[v] = Unread THEN CredValues ELSE {env[v]}

\* Variant: the try/catch stands around the while loop, so that a throw
\* leaves the loop.
afterCatch_leavesLoop(interactive) == IF interactive THEN "terminated" ELSE "done"

\* Where control goes after the catch block (index.js:133-135, 162-164) and
\* after out() (index.js:132, 161).
afterCatch(interactive) == IF interactive THEN "awaiting-input" ELSE "done"
afterOut(interactive) == IF interactive THEN "awaiting-input" ELSE "done"

\* try { const ans = await ask(provider, prompt, model) ... } up to the await:
\* ask runs to its throw, or to the SDK call that suspends it. v is the one
\* credential variable ask consults for this provider; its value is read
\* here, and ask is then computed on the environment so read.
Dispatch(provider, prompt, model, interactive) ==
    LET v == ask(provider, prompt, model, env).read
    IN  \E key \in ReadEnv(v) :
          LET environ == [env EXCEPT ![v] = key]
              effect == ask(provider, prompt, model, environ)
          IN  /\ env' = environ
              /\ call' = [provider |-> provider, prompt |-> prompt,
                          model |-> model, case |-> effect.case]
              /\ asks' = asks + 1
              /\ IF effect.threw
                 THEN /\ console' = printError(effect.message)
                      /\ pc' = afterCatch(interactive)
                      /\ UNCHANGED <<request, netCalls, reply>>
                 ELSE /\ request' = effect.request
                      /\ netCalls' = netCalls + 1
                      /\ pc' = "dispatching"
                      /\ UNCHANGED <<console, reply>>

\* if (INTERACTIVE) { await chatLoop(PROVIDER, MODEL) ... }: the banner.
EnterChat ==
    /\ pc = "entry"
    /\ INTERACTIVE(argv)
    /\ console' = Banner
    /\ pc' = "awaiting-input"
    /\ UNCHANGED <<argv, env, lines, call, asks, request, netCalls, reply>>

\* if (!PROMPT) { console.log(usage); return; }
PrintUsage ==
    /\ pc = "entry"
    /\ ~INTERACTIVE(argv)
    /\ falsy(PROMPT(argv))
    /\ console' = Usage
    /\ pc' = "done"
    /\ UNCHANGED <<argv, env, lines, call, asks, request, netCalls, reply>>

\* try { const ans = await ask(PROVIDER, PROMPT, MODEL) ...
OneShot ==
    /\ pc = "entry"
    /\ ~INTERACTIVE(argv)
    /\ ~falsy(PROMPT(argv))
    /\ Dispatch(PROVIDER(argv), PROMPT(argv), MODEL(argv), FALSE)
    /\ UNCHANGED <<argv, lines>>

\* if (!q.trim()) continue;
isBlank(q) == falsy(trim(q))

\* Variant: q.toLowerCase() === '/exit', without trim().
isExit_untrimmed(q) == toLowerCase(q) = s_exit

\* if (q.trim().toLowerCase() === '/exit') break;
isExit(q) == toLowerCase(trim(q)) = s_exit

\* Variant: ask(provider, q.trim(), model).
chatLoop_prompt_trimmed(q) == trim(q)

\* The prompt chatLoop hands to ask: ask(provider, q, model).
chatLoop_prompt(q) == q

\* One turn of the while loop of chatLoop, from the line read to the
\* continue, the break, the catch or the await of the SDK call.
ReadLine ==
    /\ pc = "awaiting-input"
    /\ Len(lines) < MaxLines
    /\ \E q \in Lines :
          /\ lines' = Append(lines, q)
          /\ IF isBlank(q)
             THEN UNCHANGED <<env, pc, call, asks, request, netCalls, reply, console>>
             ELSE IF isExit(q)
             THEN /\ pc' = "terminated"
                  /\ UNCHANGED <<env, call, asks, request, netCalls, reply, console>>
             ELSE Dispatch(PROVIDER(argv), chatLoop_prompt(q), MODEL(argv), TRUE)
    /\ UNCHANGED argv

\* Standard input ends while rl.question waits: its callback is never
\* called, the loop never resumes, rl.close() is never reached.
InputClosed ==
    /\ pc = "awaiting-input"
    /\ pc' = "input-closed"
    /\ UNCHANGED <<argv, env, lines, call, asks, request, netCalls, reply, console>>

\* The return statement of the caller the request came from.
Return(sdk, body) ==
    CASE sdk = "openai" -> callOpenAI_return(body)
      [] sdk = "google" -> callGemini_return(body)
      [] sdk = "anthropic" -> callClaude_return(body)

\* The SDK call resolves: the caller returns its text, out() prints it.
Answer ==
    /\ pc = "dispatching"
    /\ \E body \in Bodies(request.sdk) :
          /\ reply' = [kind |-> "body", body |-> body]
          /\ console' = out(s_Prin, Return(request.sdk, body))
    /\ pc' = afterOut(INTERACTIVE(argv))
    /\ UNCHANGED <<argv, env, lines, call, asks, request, netCalls>>

\* Variant: a rejected call is issued again.
Fail_retries ==
    /\ pc = "dispatching"
    /\ \E e \in TransportErrors : reply' = [kind |-> "error", message |-> e]
    /\ netCalls' = netCalls + 1
    /\ UNCHANGED <<argv, env, pc, lines, call, asks, request, console>>

\* The SDK call rejects: the catch block prints e.message.
Fail ==
    /\ pc = "dispatching"
    /\ \E e \in TransportErrors :
          /\ reply' = [kind |-> "error", message |-> e]
          /\ console' = printError(e)
    /\ pc' = afterCatch(INTERACTIVE(argv))
    /\ UNCHANGED <<argv, env, lines, call, asks, request, netCalls>>

Next ==
    \/ EnterChat
    \/ PrintUsage
    \/ OneShot
    \/ ReadLine
    \/ InputClosed
    \/ Answer
    \/ Fail

Spec == Init /\ [][Next]_vars

-----------------------------------------------------------------------------
\* The documented behaviour, stated without the operators of the code.

KnownKeys ==
    {s_gemini, s_claude, s_perplexity, s_deepseek, s_grok, s_openai, s_chatgpt}

\* The credential variable documented for a provider key.
CredentialOf(provider) ==
    CASE provider = s_gemini -> "GOOGLE_API_KEY"
      [] provider = s_claude -> "ANTHROPIC_API_KEY"
      [] provider = s_perplexity -> "PPLX_API_KEY"
      [] provider = s_deepseek -> "DEEPSEEK_API_KEY"
      [] provider = s_grok -> "XAI_API_KEY"
      [] OTHER -> "OPENAI_API_KEY"

MissingMessage(v) ==
    CASE v = "GOOGLE_API_KEY" -> "Missing GOOGLE_API_KEY"
      [] v = "ANTHROPIC_API_KEY" -> "Missing ANTHROPIC_API_KEY"
      [] v = "PPLX_API_KEY" -> "Missing PPLX_API_KEY"
      [] v = "DEEPSEEK_API_KEY" -> "Missing DEEPSEEK_API_KEY"
      [] v = "XAI_API_KEY" -> "Missing XAI_API_KEY"
      [] v = "OPENAI_API_KEY" -> "Missing OPENAI_API_KEY"

AbsentOrEmpty(v) == env[v] = Unset \/ env[v] = ""

\* The default model documented for a provider key.
DocumentedDefault(provider) ==
    CASE provider = s_openai -> m_gpt_4o_mini
      [] provider = s_chatgpt -> m_gpt_4o_mini
      [] provider = s_gemini -> m_gemini_15_flash
      [] provider = s_perplexity -> m_sonar_pro
      [] provider = s_deepseek -> m_deepseek_chat
      [] provider = s_claude -> m_claude_35_sonnet
      [] provider = s_grok -> m_grok_2_latest

\* A line of white space only, and a line that reads /exit in some letter
\* case between white space.
AllWhite(q) == \A i \in DOMAIN q : q[i] \in WhiteSpace

SaysExit(q) ==
    \E i \in DOMAIN q :
        LET j == i + Len(s_exit) - 1
        IN  /\ j \in DOMAIN q
            /\ \A k \in DOMAIN q : (k < i \/ k > j) => q[k] \in WhiteSpace
            /\ toLowerCase(SubSeq(q, i, j)) = s_exit

\* The positions of the lines that are prompts: neither blank nor an exit
\* line, and before the first exit line.
PromptLines(ls) ==
    {i \in DOMAIN ls :
        /\ ~AllWhite(ls[i])
        /\ ~SaysExit(ls[i])
        /\ \A j \in 1..(i - 1) : ~SaysExit(ls[j])}

Max(S) == CHOOSE x \in S : \A y \in S : y <= x

Has(v, k) == v.t = "object" /\ k \in DOMAIN v.o

\* C1: when the credential variable of the resolved provider is absent or
\* empty, ask fails with the missing-credential error of that variable and
\* no request is handed to any SDK.
C1_MissingCredentialNoCall ==
    call # NoCall =>
        LET v == CredentialOf(call.provider)
        IN  AbsentOrEmpty(v) =>
              /\ console = [stream |-> "stderr", message |-> MissingMessage(v)]
              /\ netCalls = 0
              /\ request = NoRequest
              /\ reply = NoReply
              /\ pc # "dispatching"

C1_Witness ==
    /\ asks = 2
    /\ call.provider = s_claude
    /\ env["ANTHROPIC_API_KEY"] = ""
    /\ console = [stream |-> "stderr", message |-> "Missing ANTHROPIC_API_KEY"]
    /\ netCalls = 0

\* What ask does, the case label left out.
Behaviour(effect) == [k \in DOMAIN effect \ {"case"} |-> effect[k]]

UnknownKeys == {<<>>, a_foo, a_Claude, <<"o", "p", "e", "n", "a", "i", " ">>}

\* C2: a dispatch with a provider key outside the known keys (the empty
\* string included) does what a dispatch with "openai" does: it reads
\* OPENAI_API_KEY and no other credential, uses no base URL override,
\* resolves the same model, sends the same request, and prints the same
\* result or error.
C2_UnknownKeyIsOpenAI ==
    /\ pc = "entry" =>
         \A k \in UnknownKeys : \A q \in {a_hi, <<>>} : \A m \in {null, a_gpt_4o} :
         \A key \in CredValues :
            LET environ == [v \in EnvVars |-> key]
            IN  Behaviour(ask(k, q, m, environ)) = Behaviour(ask(s_openai, q, m, environ))
    /\ (call # NoCall /\ call.provider \notin KnownKeys) =>
         LET same == ask(s_openai, call.prompt, call.model, env)
         IN  /\ same.read = "OPENAI_API_KEY"
             /\ \A v \in EnvVars : (env[v] # Unread) <=> (v = "OPENAI_API_KEY")
             /\ IF same.threw
                THEN /\ request = NoRequest
                     /\ netCalls = 0
                     /\ console = printError(same.message)
                ELSE /\ request = same.request
                     /\ request.baseURL = NoBaseURL
                     /\ netCalls = asks
                     /\ reply.kind = "body" =>
                          console = out(s_Prin, callOpenAI_return(reply.body))
                     /\ reply.kind = "error" => console = printError(reply.message)

C2_Witness ==
    /\ call # NoCall
    /\ call.provider = a_foo
    /\ request.sdk = "openai"
    /\ request.baseURL = NoBaseURL
    /\ request.apiKey = "sk-key"
    /\ reply.kind = "body"

\* C3: for each known provider key, the request carries the documented
\* default model when ask is given no model, and the given model otherwise.
C3_DefaultModel ==
    (request # NoRequest /\ call.provider \in KnownKeys) =>
        request.model =
            IF call.model = null THEN DocumentedDefault(call.provider)
            ELSE call.model

C3_Witness ==
    /\ request # NoRequest
    /\ call.provider = s_grok
    /\ call.model = null
    /\ request.model = m_grok_2_latest

\* C4: in the interactive loop a blank line leaves the loop awaiting input,
\* an exit line (any letter case, white space around it) ends the loop, and
\* neither is dispatched: the number of ask calls is the number of lines
\* before the first exit line that are neither blank nor an exit line.
C4_BlankAndExitLines ==
    INTERACTIVE(argv) =>
        /\ asks = Cardinality(PromptLines(lines))
        /\ \A i \in 1..(Len(lines) - 1) : ~SaysExit(lines[i])
        /\ lines # <<>> =>
             LET last == lines[Len(lines)]
             IN  /\ AllWhite(last) => pc \in {"awaiting-input", "input-closed"}
                 /\ SaysExit(last) => pc = "terminated"

C4_Witness ==
    /\ INTERACTIVE(argv)
    /\ lines = <<a_hi, <<" ", "/", "E", "x", "I", "T", " ">> >>
    /\ asks = 1
    /\ pc = "terminated"

\* C5: the loop starts awaiting input; it becomes terminated only from
\* awaiting input, by reading an exit line; a dispatch that fails (missing
\* credential or rejected call) prints the error message and leaves the
\* loop awaiting input, and one that succeeds prints the answer and leaves
\* the loop awaiting input.
C5_OnlyExitTerminates ==
    [][INTERACTIVE(argv) =>
        /\ pc = "entry" => pc' = "awaiting-input"
        /\ (pc # "terminated" /\ pc' = "terminated") =>
              /\ pc = "awaiting-input"
              /\ Len(lines') = Len(lines) + 1
              /\ SaysExit(lines'[Len(lines')])
        /\ (pc = "dispatching" /\ pc' # "dispatching") =>
              /\ pc' = "awaiting-input"
              /\ reply'.kind \in {"body", "error"}
              /\ reply'.kind = "error" =>
                   console' = [stream |-> "stderr", message |-> reply'.message]
              /\ reply'.kind = "body" =>
                   console'.stream = "stdout" /\ console'.label = s_Prin
        /\ pc = "dispatching" => pc' \in {"dispatching", "awaiting-input"}
        /\ (asks' = asks + 1 /\ pc' # "dispatching") =>
              /\ pc' = "awaiting-input"
              /\ console' = [stream |-> "stderr",
                             message |-> MissingMessage(CredentialOf(call'.provider))]
      ]_vars

C5_Witness ==
    /\ INTERACTIVE(argv)
    /\ pc = "awaiting-input"
    /\ asks = 2
    /\ reply.kind = "error"
    /\ console = [stream |-> "stderr", message |-> "Connection error."]

\* The provider name the command line gives: the argument after the first
\* -p or --provider that has one.
GivenProvider(args) ==
    LET at_ == {i \in 1..(Len(args) - 1) : args[i] \in {f_p, f_provider}}
    IN  IF at_ = {} THEN null
        ELSE args[(CHOOSE i \in at_ : \A j \in at_ : i <= j) + 1]

\* C6: the provider key is resolved without regard to letter case and is
\* gemini when the command line names none: a known key in any letter case
\* takes the case of its lower-case form.
C6_ProviderCaseInsensitive ==
    call # NoCall =>
        LET given == GivenProvider(argv)
            k == toLowerCase(given)
        IN  IF given = null THEN call.case = "gemini"
            ELSE k \in KnownKeys =>
                    /\ call.provider = k
                    /\ call.case = ask(k, call.prompt, call.model, env).case
                    /\ call.case \in {"gemini", "claude", "perplexity",
                                      "deepseek", "grok", "openai", "chatgpt"}

C6_Witness ==
    /\ GivenProvider(argv) = a_GROK
    /\ call # NoCall
    /\ call.case = "grok"
    /\ request.sdk = "openai"
    /\ request.baseURL = "https://api.x.ai/v1"

\* C7: a dispatch that passes its credential check hands exactly one
\* request to an SDK, whether the call then succeeds or fails: the number
\* of requests is the number of ask calls whose credential was present.
C7_OneCallPerDispatch ==
    /\ netCalls =
         IF call # NoCall /\ ~AbsentOrEmpty(CredentialOf(call.provider))
         THEN asks ELSE 0
    /\ pc = "dispatching" => netCalls = asks /\ request # NoRequest

C7_Witness ==
    /\ netCalls = 2
    /\ asks = 2
    /\ reply.kind = "error"
    /\ pc = "awaiting-input"

\* The text of choices[0].message.content where every segment of that path
\* is present, and the empty string otherwise.
ContentOf(body) ==
    IF /\ Has(body, "choices")
       /\ body.o.choices.t = "array"
       /\ body.o.choices.a # <<>>
       /\ Has(body.o.choices.a[1], "message")
       /\ Has(body.o.choices.a[1].o.message, "content")
       /\ body.o.choices.a[1].o.message.o.content.t = "string"
    THEN body.o.choices.a[1].o.message.o.content.s
    ELSE <<>>

\* C8: the answer of an OpenAI-compatible reply is exactly the text of
\* choices[0].message.content, and the empty string when choices or a later
\* segment of that path is absent; no error is raised.
C8_OpenAINormalizer ==
    (request.sdk = "openai" /\ reply.kind = "body") =>
        /\ console = [stream |-> "stdout", label |-> s_Prin,
                      text |-> ContentOf(reply.body)]
        /\ ~Has(reply.body, "choices") => console.text = <<>>

C8_Witness ==
    /\ request.sdk = "openai"
    /\ reply = [kind |-> "body", body |-> JsObj([choices |-> JsArr(<<>>)])]
    /\ console = [stream |-> "stdout", label |-> s_Prin, text |-> <<>>]

\* The text fields of the blocks in order, a block without one giving "".
RECURSIVE ConcatTexts(_)
ConcatTexts(blocks) ==
    IF blocks = <<>> THEN <<>>
    ELSE (IF Has(Head(blocks), "text") /\ Head(blocks).o.text.t = "string"
          THEN Head(blocks).o.text.s ELSE <<>>) \o ConcatTexts(Tail(blocks))

\* r is full without its leading and trailing white space.
IsTrimOf(r, full) ==
    /\ r # <<>> => (r[1] \notin WhiteSpace /\ r[Len(r)] \notin WhiteSpace)
    /\ \E i \in 0..Len(full) : \E j \in i..Len(full) :
          /\ r = SubSeq(full, i + 1, j)
          /\ \A k \in DOMAIN full : (k <= i \/ k > j) => full[k] \in WhiteSpace

\* C9: the answer of a claude reply is the in-order concatenation of the
\* text fields of its content blocks, a block without one contributing the
\* empty string, with leading and trailing white space removed; blocks
\* [{text:"a"}, {}, {text:"b"}] give "ab" and absent content gives "".
C9_ClaudeNormalizer ==
    (request.sdk = "anthropic" /\ reply.kind = "body") =>
        LET blocks == IF Has(reply.body, "content")
                      THEN reply.body.o.content.a ELSE <<>>
        IN  /\ console.stream = "stdout"
            /\ console.label = s_Prin
            /\ IsTrimOf(console.text, ConcatTexts(blocks))
            /\ blocks = <<Text(<<"a">>), EmptyObj, Text(<<"b">>)>> =>
                 console.text = <<"a", "b">>
            /\ ~Has(reply.body, "content") => console.text = <<>>

C9_Witness ==
    /\ request.sdk = "anthropic"
    /\ reply.kind = "body"
    /\ reply.body =
         JsObj([content |-> JsArr(<<Text(<<" ", "a", " ">>), Text(<<"b", "\n">>)>>)])
    /\ console.text = <<"a", " ", "b">>

\* C10: a request to an OpenAI-compatible provider carries one message, of
\* role "user", whose content is the prompt ask was given; in the
\* interactive loop that prompt is the line as read, and the provider and
\* model are those the loop was started with.
C10_PromptUnmodified ==
    /\ request.sdk = "openai" =>
         /\ Len(request.messages) = 1
         /\ request.messages[1] = [role |-> "user", content |-> call.prompt]
    /\ (INTERACTIVE(argv) /\ call # NoCall) =>
         /\ PromptLines(lines) # {}
         /\ call.prompt = lines[Max(PromptLines(lines))]
         /\ call.provider = PROVIDER(argv)
         /\ call.model = MODEL(argv)
    /\ (~INTERACTIVE(argv) /\ call # NoCall) => call.prompt = argv[Len(argv)]

C10_Witness ==
    /\ INTERACTIVE(argv)
    /\ call.case = "perplexity"
    /\ lines = << <<" ", "h", "i", " ">> >>
    /\ request.sdk = "openai"
    /\ request.messages = <<[role |-> "user", content |-> <<" ", "h", "i", " ">>]>>

====
